---- MODULE Spec2Model ----
(***************************************************************************)
(* mkgo: scaffolding of a Go main module from compiled-in templates.       *)
(* Two variants of the program are modelled: the base variant              *)
(* (src/mkgo.go) and the extended variant with LICENSE and README.md       *)
(* generation (src/unnamed/part_001).                                      *)
(*                                                                         *)
(* Strings are sequences of one-character strings, so that path splitting, *)
(* cleaning, joining and token replacement are computed character by       *)
(* character as the library routines compute them.                         *)
(***************************************************************************)
EXTENDS Integers, Sequences, FiniteSets, TLC

VARIABLES
    variant,    \* "base" (src/mkgo.go) or "ext" (src/unnamed/part_001)
    args,       \* parsed flags, and n = len(flag.Args())
    arg0,       \* flag.Arg(0): the module identifier
    GOPATH,     \* os.Getenv("GOPATH")
    part,       \* result of splitPath(arg0)
    path,       \* packagePath's first result (full)
    name,       \* packagePath's second result
    disk,       \* what is at the destination path and at each output path
    disk0,      \* the disk when the run started
    pc,         \* position of the program
    exitCode,   \* process exit status, NoExit while running
    stdout,     \* items printed to standard output, in order
    trace,      \* side-effecting steps performed, in order, with outcome
    tmpl,       \* the receiver Template: its lines, rewritten in place
    tmpl0,      \* the Template's lines before insert
    ctx,        \* the replacement values handed to insert
    text        \* the result of String

vars == <<variant, args, arg0, GOPATH, part, path, name, disk, disk0, pc,
          exitCode, stdout, trace, tmpl, tmpl0, ctx, text>>
tmplVars == <<tmpl, tmpl0, ctx, text>>
inputVars == <<variant, args, arg0, GOPATH, disk0, tmplVars>>
pathVars == <<part, path, name>>
runVars == <<disk, exitCode, stdout, trace>>

----------------------------------------------------------------------------
(* Bounds of the model *)

\* longest module identifier enumerated for the path resolver
MaxIdLen == 5

----------------------------------------------------------------------------
(* Strings *)

Sep == "/"
ListSep == ":"

Max(S) == CHOOSE x \in S : \A y \in S : y <= x
Min(S) == CHOOSE x \in S : \A y \in S : x <= y

\* all strings over alphabet A of length at most n
RECURSIVE StringsUpTo(_, _)
StringsUpTo(A, n) ==
    IF n = 0 THEN {<<>>}
    ELSE LET S == StringsUpTo(A, n - 1)
         IN S \cup {Append(s, c) : s \in {t \in S : Len(t) = n - 1}, c \in A}

Reverse(s) == [i \in 1..Len(s) |-> s[Len(s) - i + 1]]

\* strings.Split(s, c) for a one-character separator c
RECURSIVE StrSplit(_, _)
StrSplit(s, c) ==
    LET I == {i \in 1..Len(s) : s[i] = c}
    IN IF I = {} THEN <<s>>
       ELSE LET i == Min(I)
            IN <<SubSeq(s, 1, i - 1)>> \o StrSplit(SubSeq(s, i + 1, Len(s)), c)

\* strings.Join(elems, c)
RECURSIVE StrJoin(_, _)
StrJoin(elems, c) ==
    IF Len(elems) = 0 THEN <<>>
    ELSE IF Len(elems) = 1 THEN elems[1]
    ELSE elems[1] \o <<c>> \o StrJoin(Tail(elems), c)

----------------------------------------------------------------------------
(* path/filepath (Unix) *)

\* filepath.Split: the text up to and including the last separator, and the rest
Split(p) ==
    LET I == {i \in 1..Len(p) : p[i] = Sep}
        i == IF I = {} THEN 0 ELSE Max(I)
    IN <<SubSeq(p, 1, i), SubSeq(p, i + 1, Len(p))>>

\* the element pass of filepath.Clean: drops empty and "." elements, lets
\* ".." cancel the preceding non-".." element, keeps leading ".." of a
\* relative path and drops ".." at the root
RECURSIVE CleanElems(_, _, _)
CleanElems(elems, out, rooted) ==
    IF Len(elems) = 0 THEN out
    ELSE LET e == Head(elems)
             rest == Tail(elems)
         IN IF e = <<>> \/ e = <<".">> THEN CleanElems(rest, out, rooted)
            ELSE IF e = <<".", ".">>
                 THEN IF Len(out) > 0 /\ out[Len(out)] # <<".", ".">>
                      THEN CleanElems(rest, SubSeq(out, 1, Len(out) - 1), rooted)
                      ELSE IF ~rooted
                           THEN CleanElems(rest, Append(out, e), rooted)
                           ELSE CleanElems(rest, out, rooted)
            ELSE CleanElems(rest, Append(out, e), rooted)

\* filepath.Clean
Clean(p) ==
    IF Len(p) = 0 THEN <<".">>
    ELSE LET rooted == p[1] = Sep
             body == StrJoin(CleanElems(StrSplit(p, Sep), <<>>, rooted), Sep)
             out == IF rooted THEN <<Sep>> \o body ELSE body
         IN IF Len(out) = 0 THEN <<".">> ELSE out

\* filepath.Join: leading empty elements are skipped, the rest is joined
\* with the separator and cleaned; no non-empty element gives ""
RECURSIVE Join(_)
Join(elems) ==
    IF Len(elems) = 0 THEN <<>>
    ELSE IF Len(elems[1]) = 0 THEN Join(Tail(elems))
    ELSE Clean(StrJoin(elems, Sep))

\* filepath.SplitList: "" gives the empty list (unlike strings.Split)
SplitList(s) == IF Len(s) = 0 THEN <<>> ELSE StrSplit(s, ListSep)

----------------------------------------------------------------------------
(* splitPath, packagePath *)

\* the loop of splitPath never ends on a rooted path: filepath.Split("/")
\* gives d = "/", and filepath.Clean("/") is "/" again
splitPathHangs(p) == Len(p) > 0 /\ p[1] = Sep

\* the extraction loop of splitPath: components are appended last first
RECURSIVE splitLoop(_, _)
splitLoop(p, acc) ==
    IF Len(p) = 0 THEN acc
    ELSE LET d == Split(p)[1]
             f == Split(p)[2]
             acc2 == IF Len(f) > 0 THEN Append(acc, f) ELSE acc
         IN IF Len(d) > 0 THEN splitLoop(Clean(d), acc2) ELSE acc2

splitPath(p) == Reverse(splitLoop(p, <<>>))

SrcDir == <<"s", "r", "c">>

\* variant of packagePath that joins the components even without a GOPATH entry
packagePathRelative(p, env) ==
    LET gopath == SplitList(env)
        prt == splitPath(p)
    IN [full |-> IF Len(gopath) > 0
                 THEN Join(<<gopath[1], SrcDir, Join(prt)>>)
                 ELSE Join(prt),
        name |-> IF Len(prt) > 0 THEN prt[Len(prt)] ELSE <<>>]

packagePath(p, env) ==
    LET gopath == SplitList(env)
        prt == splitPath(p)
    IN [full |-> IF Len(gopath) > 0
                 THEN Join(<<gopath[1], SrcDir, Join(prt)>>)
                 ELSE <<>>,
        name |-> IF Len(prt) > 0 THEN prt[Len(prt)] ELSE <<>>]

----------------------------------------------------------------------------
(* Template *)

\* the placeholder tokens
ImportToken == <<"_", "_", "I", "M", "P", "O", "R", "T", "_", "_">>
NameToken == <<"_", "_", "N", "A", "M", "E", "_", "_">>
DateToken == <<"_", "_", "D", "A", "T", "E", "_", "_">>
VersionToken == <<"_", "_", "V", "E", "R", "S", "I", "O", "N", "_", "_">>
UserToken == <<"_", "_", "U", "S", "E", "R", "_", "_">>

\* the tokens insert replaces, in the order of its ReplaceAll calls, each
\* with the field of the replacement values it is replaced by
Tokens(v) ==
    IF v = "base"
    THEN << <<NameToken, "name">>, <<DateToken, "date">>, <<VersionToken, "version">> >>
    ELSE << <<ImportToken, "path">>, <<NameToken, "name">>, <<DateToken, "date">>,
            <<VersionToken, "version">>, <<UserToken, "user">> >>

NoContext == [path |-> <<>>, name |-> <<>>, date |-> <<>>, version |-> <<>>, user |-> <<>>]

\* whether old occurs in s at position i
MatchesAt(s, old, i) ==
    i + Len(old) - 1 <= Len(s) /\ SubSeq(s, i, i + Len(old) - 1) = old

\* strings.ReplaceAll for a non-empty old: the non-overlapping occurrences
\* of old, found from left to right, are replaced by new
RECURSIVE ReplaceFrom(_, _, _, _)
ReplaceFrom(s, old, new, i) ==
    IF i > Len(s) THEN <<>>
    ELSE IF MatchesAt(s, old, i) THEN new \o ReplaceFrom(s, old, new, i + Len(old))
    ELSE <<s[i]>> \o ReplaceFrom(s, old, new, i + 1)

\* variant of ReplaceAll that replaces the first occurrence only
ReplaceFirst(s, old, new) ==
    LET I == {i \in 1..Len(s) : MatchesAt(s, old, i)}
    IN IF I = {} THEN s
       ELSE SubSeq(s, 1, Min(I) - 1) \o new \o SubSeq(s, Min(I) + Len(old), Len(s))

ReplaceAll(s, old, new) == ReplaceFrom(s, old, new, 1)

\* the nested ReplaceAll calls on one line, innermost first
RECURSIVE insertLine(_, _, _)
insertLine(s, toks, c) ==
    IF Len(toks) = 0 THEN s
    ELSE insertLine(ReplaceAll(s, toks[1][1], c[toks[1][2]]), Tail(toks), c)

\* Template.insert: every line of the receiver is rewritten
insert(t, v, c) == [i \in 1..Len(t) |-> insertLine(t[i], Tokens(v), c)]

\* Template.String
String(t) == StrJoin(t, "\n")

\* the lines of template that carry a token
template ==
    << <<"\t", "\t", "P", "a", "c", "k", "a", "g", "e", ":", " ", "\"", "_", "_", "N", "A", "M", "E", "_", "_", "\"", ",">>,
       <<"\t", "\t", "V", "e", "r", "s", "i", "o", "n", ":", " ", "\"", "_", "_", "V", "E", "R", "S", "I", "O", "N", "_", "_", "\"", ",">>,
       <<"\t", "\t", "D", "a", "t", "e", ":", " ", " ", " ", " ", "\"", "_", "_", "D", "A", "T", "E", "_", "_", "\"", ",">>,
       <<"\t", "\t", "f", "m", "t", ".", "P", "r", "i", "n", "t", "f", "(", "\"", "_", "_", "N", "A", "M", "E", "_", "_", " ", "v", "e", "r", "s", "i", "o", "n", " ", "%", "s", "\\", "n", "\"", ",", " ", "v", "e", "r", "s", "i", "o", "n", ".", "S", "t", "r", "i", "n", "g", "(", ")", ")">> >>

\* the head of licenseTemplate["MIT"], down to the line that carries a token
licenseMIT ==
    << <<"M", "I", "T", " ", "L", "i", "c", "e", "n", "s", "e">>,
       <<>>,
       <<"C", "o", "p", "y", "r", "i", "g", "h", "t", " ", "(", "c", ")", " ", "2", "0", "2", "0", " ", "_", "_", "U", "S", "E", "R", "_", "_">> >>

\* the lines of readme that carry a token
readme ==
    << <<"[", "d", "o", "c", "i", "m", "g", "]", ":", "h", "t", "t", "p", "s", ":", "/", "/", "g", "o", "d", "o", "c", ".", "o", "r", "g", "/", "_", "_", "I", "M", "P", "O", "R", "T", "_", "_", "?", "s", "t", "a", "t", "u", "s", ".", "s", "v", "g">>,
       <<"[", "d", "o", "c", "u", "r", "l", "]", ":", "h", "t", "t", "p", "s", ":", "/", "/", "g", "o", "d", "o", "c", ".", "o", "r", "g", "/", "_", "_", "I", "M", "P", "O", "R", "T", "_", "_">>,
       <<"#", " ", "_", "_", "N", "A", "M", "E", "_", "_">>,
       <<"_", "_", "N", "A", "M", "E", "_", "_", " ", ".", ".", ".">>,
       <<"U", "s", "a", "g", "e", " ", "o", "f", " ", "_", "_", "N", "A", "M", "E", "_", "_", ":">>,
       <<"g", "o", " ", "g", "e", "t", " ", "-", "v", " ", "_", "_", "I", "M", "P", "O", "R", "T", "_", "_">> >>

----------------------------------------------------------------------------
(* The file system as the run sees it *)

\* what os.Stat can meet at a path: nothing, a directory, something whose
\* stat fails with an error other than not-exist, or a regular file, which
\* holds its earlier content, a rendered template, the source as rewritten
\* by goimports -w, or the remains of a failed write
FileStates == {"absent", "dir", "unreadable", "old"}
IsRegular(v) == v \in {"old", "rendered", "formatted", "partial"}

\* fileExists: os.Stat returns a nil FileInfo with any error, so
\* exists && stat.IsDir() dereferences nil when the error is not not-exist
fileExists(v) ==
    [panics |-> v = "unreadable",
     exists |-> v # "absent",
     isDir  |-> v = "dir"]

\* keys of the compiled-in licenseTemplate map
licenseTemplate == {"MIT"}

NoExit == -1

\* exit status of a Go program ended by a runtime panic
PanicStatus == 2

ErrorLine(msg) == <<"error:", msg>>
HasErrorPrefix(item) == Len(item) > 0 /\ item[1] = "error:"

\* combined output an external tool can leave: none (the tool could not be
\* started) or its own diagnostics
ToolOutputs == {<<>>, <<"tool diagnostics">>}

Step(op, on, ok) == [op |-> op, on |-> on, ok |-> ok]

Exit(code, item) ==
    /\ pc' = "done"
    /\ exitCode' = code
    /\ stdout' = IF Len(item) = 0 THEN stdout ELSE Append(stdout, item)

----------------------------------------------------------------------------
(* main *)

\* flag.Parse and the changelog / version / missing-argument branches
ParseAndDispatch ==
    /\ pc = "start"
    /\ IF args.changelog
       THEN Exit(0, <<"changelog">>)
       ELSE IF args.version
       THEN Exit(0, <<"mkgo version">>)
       ELSE IF args.n = 0
       THEN Exit(1, ErrorLine("no package path specified (use -h for help)"))
       ELSE /\ pc' = "resolve"
            /\ UNCHANGED <<exitCode, stdout>>
    /\ UNCHANGED <<inputVars, pathVars, disk, trace>>

\* path, name := packagePath(flag.Arg(0))
ResolvePath ==
    /\ pc = "resolve"
    /\ ~splitPathHangs(arg0)
    /\ part' = splitPath(arg0)
    /\ path' = packagePath(arg0, GOPATH).full
    /\ name' = packagePath(arg0, GOPATH).name
    /\ pc' = "resolved"
    /\ UNCHANGED <<inputVars, runVars>>

\* splitPath spins forever on a rooted identifier
ResolveHangs ==
    /\ pc = "resolve"
    /\ splitPathHangs(arg0)
    /\ pc' = "hang"
    /\ UNCHANGED <<inputVars, pathVars, runVars>>

\* os.MkdirAll(path): succeeds on an existing directory, fails on "" and on
\* a path held by a file, and may do either when it has to create
MkdirAll ==
    /\ pc = "resolved"
    /\ \E ok \in BOOLEAN :
        /\ ok => (Len(path) > 0 /\ disk.dest # "file")
        /\ ~ok => (Len(path) = 0 \/ disk.dest # "dir")
        /\ trace' = Append(trace, Step("mkdir", "dest", ok))
        /\ IF ok
           THEN /\ disk' = [disk EXCEPT !.dest = "dir"]
                /\ pc' = "check_source"
                /\ UNCHANGED <<exitCode, stdout>>
           ELSE /\ Exit(2, ErrorLine("mkdir"))
                /\ UNCHANGED disk
    /\ UNCHANGED <<inputVars, pathVars>>

\* variant of CheckOutput that goes on to write whatever is at the path
CheckOutputIgnoresExisting(which, dirCode, existsCode, writePc) ==
    /\ LET st == fileExists(disk[which])
       IN IF st.panics
          THEN /\ pc' = "panic"
               /\ exitCode' = PanicStatus
               /\ UNCHANGED stdout
          ELSE IF st.isDir
               THEN Exit(dirCode, ErrorLine("output file is a directory"))
               ELSE /\ pc' = writePc
                    /\ UNCHANGED <<exitCode, stdout>>
    /\ trace' = Append(trace, Step("stat", which, ~fileExists(disk[which]).panics))
    /\ UNCHANGED <<inputVars, pathVars, disk>>

\* if exists, isDir := fileExists(p); !exists || argOverwrite { if isDir
\* {exit dirCode} ... } else {exit existsCode}
CheckOutput(which, dirCode, existsCode, writePc) ==
    /\ LET st == fileExists(disk[which])
       IN IF st.panics
          THEN /\ pc' = "panic"
               /\ exitCode' = PanicStatus
               /\ UNCHANGED stdout
          ELSE IF ~st.exists \/ args.overwrite
          THEN IF st.isDir
               THEN Exit(dirCode, ErrorLine("output file is a directory"))
               ELSE /\ pc' = writePc
                    /\ UNCHANGED <<exitCode, stdout>>
          ELSE Exit(existsCode, ErrorLine("file exists (use -f to overwrite)"))
    /\ trace' = Append(trace, Step("stat", which, ~fileExists(disk[which]).panics))
    /\ UNCHANGED <<inputVars, pathVars, disk>>

\* tmpl.insert(...); ioutil.WriteFile(p, []byte(tmpl.String()), 0664): a
\* failed write leaves the path as it was or truncated
WriteOutput(which, failCode, nextPc) ==
    /\ \E ok \in BOOLEAN :
        /\ trace' = Append(trace, Step("write", which, ok))
        /\ IF ok
           THEN /\ disk' = [disk EXCEPT ![which] = "rendered"]
                /\ pc' = nextPc
                /\ UNCHANGED <<exitCode, stdout>>
           ELSE /\ \E left \in {disk[which], "partial"} :
                     disk' = [disk EXCEPT ![which] = left]
                /\ Exit(failCode, ErrorLine("write"))
    /\ UNCHANGED <<inputVars, pathVars>>

CheckSource ==
    /\ pc = "check_source"
    /\ CheckOutput("source", 3, 7, "write_source")

WriteSource ==
    /\ pc = "write_source"
    /\ WriteOutput("source", 4, "goimports")

\* variant of GoImports that prints the output of a failed goimports and
\* carries on with go mod init
GoImportsContinues ==
    /\ pc = "goimports"
    /\ \E ok \in BOOLEAN :
        /\ trace' = Append(trace, Step("goimports", "source", ok))
        /\ pc' = "gomod"
        /\ UNCHANGED exitCode
        /\ IF ok
           THEN /\ disk' = [disk EXCEPT !.source = "formatted"]
                /\ UNCHANGED stdout
           ELSE /\ \E out \in ToolOutputs :
                     stdout' = IF Len(out) = 0 THEN stdout ELSE Append(stdout, out)
                /\ UNCHANGED disk
    /\ UNCHANGED <<inputVars, pathVars>>

\* execCmd(path, "goimports", "-w", name+".go"): on failure only the
\* captured output is printed
GoImports ==
    /\ pc = "goimports"
    /\ \E ok \in BOOLEAN :
        /\ trace' = Append(trace, Step("goimports", "source", ok))
        /\ IF ok
           THEN /\ disk' = [disk EXCEPT !.source = "formatted"]
                /\ pc' = "gomod"
                /\ UNCHANGED <<exitCode, stdout>>
           ELSE /\ \E out \in ToolOutputs : Exit(5, out)
                /\ UNCHANGED disk
    /\ UNCHANGED <<inputVars, pathVars>>

\* execCmd(path, "go", "mod", "init"): go mod init refuses an existing go.mod
GoModInit ==
    /\ pc = "gomod"
    /\ \E ok \in BOOLEAN :
        /\ ok => disk.gomod = "absent"
        /\ trace' = Append(trace, Step("gomod", "gomod", ok))
        /\ IF ok
           THEN /\ disk' = [disk EXCEPT !.gomod = "rendered"]
                /\ pc' = IF variant = "base" THEN "success" ELSE "license"
                /\ UNCHANGED <<exitCode, stdout>>
           ELSE /\ \E out \in ToolOutputs : Exit(6, out)
                /\ UNCHANGED disk
    /\ UNCHANGED <<inputVars, pathVars>>

\* variant of LookupLicense that removes the generated source file before
\* it reports an unsupported license
LookupLicenseRollsBack ==
    /\ pc = "license"
    /\ IF args.license \notin licenseTemplate
       THEN /\ Exit(8, ErrorLine("unsupported license (use -h to view options)"))
            /\ disk' = [disk EXCEPT !.source = "absent"]
       ELSE /\ pc' = "check_license"
            /\ UNCHANGED <<exitCode, stdout, disk>>
    /\ UNCHANGED <<inputVars, pathVars, trace>>

\* license, ok := licenseTemplate[argLicense]; !ok -> exit 8
LookupLicense ==
    /\ pc = "license"
    /\ IF args.license \notin licenseTemplate
       THEN Exit(8, ErrorLine("unsupported license (use -h to view options)"))
       ELSE /\ pc' = "check_license"
            /\ UNCHANGED <<exitCode, stdout>>
    /\ UNCHANGED <<inputVars, pathVars, disk, trace>>

CheckLicense ==
    /\ pc = "check_license"
    /\ CheckOutput("license", 9, 11, "write_license")

WriteLicense ==
    /\ pc = "write_license"
    /\ WriteOutput("license", 10, "check_readme")

\* the readme block is not guarded by argReadme
CheckReadme ==
    /\ pc = "check_readme"
    /\ CheckOutput("readme", 9, 11, "write_readme")

WriteReadme ==
    /\ pc = "write_readme"
    /\ WriteOutput("readme", 10, "success")

\* fmt.Printf("mkgo: successfully created %q: %s\n", flag.Arg(0), path)
Success ==
    /\ pc = "success"
    /\ Exit(0, <<"mkgo:", "successfully created", arg0, path>>)
    /\ UNCHANGED <<inputVars, pathVars, disk, trace>>

----------------------------------------------------------------------------
(* A run of the program *)

Variants == {"base", "ext"}
LicenseArgs == {"", "MIT", "BSD"}
RunIdentifiers == {<<"a", Sep, "b">>, <<Sep, "a">>}
RunGoPaths == {<<>>, <<Sep, "g">>}

DefaultArgs ==
    [changelog |-> FALSE, version |-> FALSE, n |-> 1,
     overwrite |-> FALSE, readme |-> FALSE, license |-> ""]

\* flag values: the display flags and a missing argument end the run before
\* any other flag is read, so they are enumerated over the defaults only
ArgSets(v) ==
    {[DefaultArgs EXCEPT !.changelog = TRUE],
     [DefaultArgs EXCEPT !.version = TRUE],
     [DefaultArgs EXCEPT !.n = 0]}
    \cup {[DefaultArgs EXCEPT !.overwrite = f, !.readme = r, !.license = l] :
            f \in BOOLEAN,
            r \in IF v = "ext" THEN BOOLEAN ELSE {FALSE},
            l \in IF v = "ext" THEN LicenseArgs ELSE {""}}

EmptyDisk ==
    [dest |-> "absent", source |-> "absent", gomod |-> "absent",
     license |-> "absent", readme |-> "absent"]

\* the destination is what packagePath's result names; the output paths
\* hold something only inside an existing destination directory, and the
\* base variant never looks at LICENSE or README.md
Disks(v, id, env) ==
    IF splitPathHangs(id) \/ Len(packagePath(id, env).full) = 0
    THEN {EmptyDisk}
    ELSE {EmptyDisk, [EmptyDisk EXCEPT !.dest = "file"]}
         \cup {[dest |-> "dir", source |-> s, gomod |-> g, license |-> l, readme |-> r] :
                 s \in FileStates, g \in {"absent", "old"},
                 l \in IF v = "ext" THEN FileStates ELSE {"absent"},
                 r \in IF v = "ext" THEN FileStates ELSE {"absent"}}

Init ==
    /\ variant \in Variants
    /\ args \in ArgSets(variant)
    /\ arg0 \in IF args.n = 0 THEN {<<>>} ELSE RunIdentifiers
    /\ GOPATH \in RunGoPaths
    /\ disk \in Disks(variant, arg0, GOPATH)
    /\ disk0 = disk
    /\ part = <<>>
    /\ path = <<>>
    /\ name = <<>>
    /\ pc = "start"
    /\ exitCode = NoExit
    /\ stdout = <<>>
    /\ trace = <<>>
    /\ tmpl = <<>>
    /\ tmpl0 = <<>>
    /\ ctx = NoContext
    /\ text = <<>>

Next ==
    \/ ParseAndDispatch
    \/ ResolvePath
    \/ ResolveHangs
    \/ MkdirAll
    \/ CheckSource
    \/ WriteSource
    \/ GoImports
    \/ GoModInit
    \/ LookupLicense
    \/ CheckLicense
    \/ WriteLicense
    \/ CheckReadme
    \/ WriteReadme
    \/ Success

Spec == Init /\ [][Next]_vars

----------------------------------------------------------------------------
(* Properties of a run *)

\* a generation run: neither display flag is set and an identifier is given
Generation == ~args.changelog /\ ~args.version /\ args.n > 0

Did(op, on) == \E i \in 1..Len(trace) : trace[i].op = op /\ trace[i].on = on
DidOk(op, on) == \E i \in 1..Len(trace) : trace[i] = Step(op, on, TRUE)
Ended == pc \in {"done", "panic"}

\* the steps of a run in program order
StepOrder(v) ==
    << <<"mkdir", "dest">>, <<"stat", "source">>, <<"write", "source">>,
       <<"goimports", "source">>, <<"gomod", "gomod">> >>
    \o IF v = "base" THEN <<>>
       ELSE << <<"stat", "license">>, <<"write", "license">>,
               <<"stat", "readme">>, <<"write", "readme">> >>

SuccessLine == <<"mkgo:", "successfully created", arg0, path>>

\* C1: when the primary source path is an existing directory, the run ends
\* with exit code 3 whether or not -f is set, never with exit code 7, and
\* nothing is written.
C1_DirectoryAlwaysExit3 ==
    (Generation /\ disk0.source = "dir") =>
        /\ ~Did("write", "source")
        /\ disk.source = "dir"
        /\ exitCode # 7
        /\ pc = "done" => exitCode = 3

\* C2: when the primary source file exists as a regular file: without -f
\* the run neither hangs nor crashes and ends with exit code 7, nothing on
\* disk is modified, nothing is written and neither external tool is
\* invoked; with -f the run does not
\* end with exit code 7, the file is written over and the run goes on to
\* goimports.
C2_ExistingFileNeedsForce ==
    (Generation /\ disk0.source = "old") =>
        /\ ~args.overwrite =>
            /\ disk = disk0
            /\ \A i \in 1..Len(trace) : trace[i].op \in {"mkdir", "stat"}
            /\ pc = "done" => exitCode = 7
            /\ pc \notin {"panic", "hang"}
        /\ args.overwrite =>
            /\ exitCode # 7
            /\ pc = "done" => Did("write", "source")
            /\ DidOk("write", "source") =>
                /\ disk.source \in {"rendered", "formatted"}
                /\ pc = "done" => Did("goimports", "source")

C2_Witness ==
    /\ Generation /\ disk0.source = "old" /\ ~args.overwrite
    /\ pc = "done" /\ exitCode = 7 /\ Did("stat", "source")

\* C3: in the extended variant, without -l (the empty default) no LICENSE
\* file is written and the license step fails with none of the exit codes
\* 8, 9, 10, 11.
C3_LicenseGatedByFlag ==
    (variant = "ext" /\ Generation /\ args.license = "") =>
        /\ disk.license = disk0.license
        /\ ~Did("stat", "license") /\ ~Did("write", "license")
        /\ exitCode # 8
        /\ exitCode \in {9, 10, 11} => Did("stat", "readme")

\* C4: in the extended variant, without -r the README.md path is neither
\* checked nor written, and the readme step's exit codes do not occur.
C4_ReadmeGatedByFlag ==
    (variant = "ext" /\ Generation /\ ~args.readme) =>
        /\ disk.readme = disk0.readme
        /\ ~Did("stat", "readme") /\ ~Did("write", "readme")

\* C5: the steps of a generation run occur in one fixed order and the first
\* failure ends the run: goimports runs only after the source file was
\* written, go mod init only after goimports succeeded, failures of the
\* write, goimports and go mod init give exit codes 4, 5 and 6, nothing
\* runs after a failed step, and the confirmation line and exit code 0 come
\* only after every step succeeded.
C5_FixedOrderFirstFailureEnds ==
    /\ Len(trace) <= Len(StepOrder(variant))
    /\ \A i \in 1..Len(trace) : <<trace[i].op, trace[i].on>> = StepOrder(variant)[i]
    /\ \A i \in 1..Len(trace) : i < Len(trace) => trace[i].ok
    /\ \A i \in 1..Len(trace) :
        /\ trace[i].op = "goimports" => DidOk("write", "source")
        /\ trace[i].op = "gomod" => DidOk("goimports", "source")
    /\ (Len(trace) > 0 /\ ~trace[Len(trace)].ok) =>
        /\ Ended
        /\ trace[Len(trace)] = Step("write", "source", FALSE) => exitCode = 4
        /\ trace[Len(trace)].op = "goimports" => exitCode = 5
        /\ trace[Len(trace)].op = "gomod" => exitCode = 6
    /\ (Generation /\ (exitCode = 0 \/ \E i \in 1..Len(stdout) : stdout[i] = SuccessLine)) =>
        /\ exitCode = 0
        /\ stdout = <<SuccessLine>>
        /\ Len(trace) = Len(StepOrder(variant))
        /\ \A i \in 1..Len(trace) : trace[i].ok

C5_Witness ==
    /\ variant = "ext" /\ Generation /\ pc = "done" /\ exitCode = 0
    /\ stdout = <<SuccessLine>>
    /\ Len(trace) = Len(StepOrder("ext"))

\* what a successful step leaves on disk
LeftBy(step) ==
    IF step.op = "mkdir" THEN disk.dest = "dir"
    ELSE IF step.op = "goimports" THEN disk.source = "formatted"
    ELSE IF step.op = "gomod" THEN disk.gomod = "rendered"
    ELSE IF step.op = "write" THEN disk[step.on] \in {"rendered", "formatted"}
    ELSE TRUE

\* C6: no rollback: when a run ends with a non-zero exit code, everything
\* created or written by its earlier steps is still on disk as written; an
\* extended run with an unknown license kind ends with exit code 8 after
\* the source file was written and both tools ran, and the source file
\* remains.
C6_NoRollback ==
    /\ (Ended /\ exitCode # 0) =>
        \A i \in 1..Len(trace) : trace[i].ok => LeftBy(trace[i])
    /\ (variant = "ext" /\ pc = "done" /\ exitCode = 8) =>
        /\ args.license \notin licenseTemplate
        /\ DidOk("write", "source") /\ DidOk("goimports", "source") /\ DidOk("gomod", "gomod")
        /\ disk.source = "formatted"
        /\ disk.license = disk0.license /\ disk.readme = disk0.readme

C6_Witness ==
    /\ variant = "ext" /\ args.license = "BSD" /\ pc = "done" /\ exitCode = 8
    /\ disk0.source = "absent" /\ disk.source = "formatted"

\* C7: every exit of a generation run with a non-zero code, the exits
\* after a failed external tool (5, 6) included, prints an item prefixed
\* with "error:" to standard output.
C7_EveryErrorPrefixed ==
    (Generation /\ pc = "done" /\ exitCode # 0) =>
        \E i \in 1..Len(stdout) : HasErrorPrefix(stdout[i])

\* the output paths no stat of the run met with an error other than not-exist
StatReadable ==
    \A w \in {"source", "license", "readme"} : Did("stat", w) => disk0[w] # "unreadable"

\* C11: whatever the stat of an output path meets (nothing, a regular file,
\* a directory, or an error other than not-found), fileExists returns a
\* pair (exists, isDir) in which isDir implies exists, and the generation
\* run ends with one of the enumerated exit codes (0-7 in the base variant,
\* 0-11 in the extended one) and never by an unhandled crash.
C11_StatNeverCrashes ==
    Generation =>
        /\ \A i \in 1..Len(trace) : trace[i].op = "stat" =>
            /\ trace[i].ok
            /\ ~fileExists(disk0[trace[i].on]).panics
            /\ fileExists(disk0[trace[i].on]).isDir => fileExists(disk0[trace[i].on]).exists
        /\ pc # "panic"
        /\ Ended => exitCode \in (IF variant = "base" THEN 0..7 ELSE 0..11)

\* auxiliary: the three other stat outcomes are handled as stated
ReadableStatNeverCrashes == StatReadable => C11_StatNeverCrashes

----------------------------------------------------------------------------
(* The path resolver on its own: every identifier up to MaxIdLen characters *)

IdChars == {"a", "b", ".", Sep}
Identifiers == StringsUpTo(IdChars, MaxIdLen)
GoPaths ==
    {<<>>, <<Sep, "g">>, <<"g", Sep>>, <<Sep, "g", ListSep, Sep, "h">>,
     <<ListSep, Sep, "g">>}

InitPath ==
    /\ variant = "base"
    /\ args = DefaultArgs
    /\ arg0 \in Identifiers
    /\ GOPATH \in GoPaths
    /\ disk = EmptyDisk
    /\ disk0 = disk
    /\ part = <<>>
    /\ path = <<>>
    /\ name = <<>>
    /\ pc = "resolve"
    /\ exitCode = NoExit
    /\ stdout = <<>>
    /\ trace = <<>>
    /\ tmpl = <<>>
    /\ tmpl0 = <<>>
    /\ ctx = NoContext
    /\ text = <<>>

NextPath == ResolvePath \/ ResolveHangs

SpecPath == InitPath /\ [][NextPath]_vars

----------------------------------------------------------------------------
(* Properties of the path resolver *)

\* the slash-separated components of an identifier, as written
Components(id) == StrSplit(id, Sep)

\* an identifier made of N >= 1 non-empty components
WellFormedId(id) == \A i \in 1..Len(Components(id)) : Len(Components(id)[i]) > 0

\* the last non-empty component of an identifier, "" when there is none
LastComponent(id) ==
    LET I == {i \in 1..Len(Components(id)) : Len(Components(id)[i]) > 0}
    IN IF I = {} THEN <<>> ELSE Components(id)[Max(I)]

\* the first GOPATH entry exists and is not empty
NonEmptyBase == Len(SplitList(GOPATH)) > 0 /\ Len(SplitList(GOPATH)[1]) > 0

\* C8 as stated: with an empty GOPATH packagePath returns the identifier's
\* components joined as a relative path ("a/b/c" for "a/b/c"), and the last
\* component as short name.
C8_EmptyGopathGivesRelativePath ==
    (pc = "resolved" /\ Len(GOPATH) = 0 /\ WellFormedId(arg0)) =>
        /\ path = StrJoin(Components(arg0), Sep)
        /\ name = LastComponent(arg0)

\* C8, amended: with an empty GOPATH packagePath does not fail on an
\* identifier of non-empty components and returns the empty string as
\* destination path (whatever the identifier), together with the last
\* component as short name.
C8_EmptyGopathGivesEmptyPath ==
    (Len(GOPATH) = 0) =>
        /\ pc = "resolved" => path = <<>>
        /\ WellFormedId(arg0) =>
            /\ pc # "hang"
            /\ pc = "resolved" => name = LastComponent(arg0)

C8_Witness ==
    /\ pc = "resolved" /\ Len(GOPATH) = 0
    /\ arg0 = <<"a", Sep, "b", Sep, "a">>
    /\ path = <<>> /\ name = <<"a">>

\* C9: for an identifier of N >= 1 non-empty components and a non-empty
\* first GOPATH entry, splitPath returns exactly the N components in their
\* original order, the short name is the last component, and the
\* destination is the base joined with "src" and the N components in order.
C9_ComponentsInOrder ==
    (pc = "resolved" /\ WellFormedId(arg0) /\ NonEmptyBase) =>
        /\ part = Components(arg0)
        /\ name = Components(arg0)[Len(Components(arg0))]
        /\ path = Join(<<SplitList(GOPATH)[1], SrcDir>> \o Components(arg0))

----------------------------------------------------------------------------
(* The template engine on its own: insert, then String *)

\* replacement values: empty, plain, a lone underscore, the two halves of a
\* token, and a whole token
Values ==
    {<<>>, <<"x">>, <<"_">>, <<"_", "_", "D", "A">>, <<"T", "E", "_", "_">>, DateToken}
FewValues == {<<"x">>, <<"_", "_", "D", "A">>, UserToken}

\* insert(name, date, version) in the base variant,
\* insert(path, name, date, version, user) in the extended variant
Contexts(v) ==
    {[path |-> p, name |-> n, date |-> d, version |-> s, user |-> u] :
        p \in IF v = "base" THEN {<<>>} ELSE FewValues,
        n \in Values, d \in Values, s \in FewValues,
        u \in IF v = "base" THEN {<<>>} ELSE FewValues}

\* templates other than the compiled-in ones: tokens next to text that
\* completes a token, and a line that carries a token twice
halfTokens == << <<"_", "_", "N", "A", "_", "_", "N", "A", "M", "E", "_", "_", "M", "E", "_", "_">> >>
nestedTokens == << <<"_", "_", "D", "A", "_", "_", "N", "A", "M", "E", "_", "_", "T", "E", "_", "_">> >>
twiceOnALine == << <<"_", "_", "N", "A", "M", "E", "_", "_", " ", "_", "_", "N", "A", "M", "E", "_", "_">>, <<>>, <<"v", "_", "_", "V", "E", "R", "S", "I", "O", "N", "_", "_">> >>

Templates(v) ==
    {template, halfTokens, nestedTokens, twiceOnALine}
    \cup IF v = "base" THEN {} ELSE {licenseMIT, readme}

InitTemplate ==
    /\ variant \in Variants
    /\ args = DefaultArgs
    /\ arg0 = <<>>
    /\ GOPATH = <<>>
    /\ disk = EmptyDisk
    /\ disk0 = disk
    /\ part = <<>>
    /\ path = <<>>
    /\ name = <<>>
    /\ pc = "insert"
    /\ exitCode = NoExit
    /\ stdout = <<>>
    /\ trace = <<>>
    /\ tmpl \in Templates(variant)
    /\ tmpl0 = tmpl
    /\ ctx \in Contexts(variant)
    /\ text = <<>>

\* tmpl.insert(...): the receiver's lines are overwritten
Insert ==
    /\ pc = "insert"
    /\ tmpl' = insert(tmpl, variant, ctx)
    /\ pc' = "inserted"
    /\ UNCHANGED <<variant, args, arg0, GOPATH, disk0, tmpl0, ctx, text, pathVars, runVars>>

\* tmpl.String()
Render ==
    /\ pc = "inserted"
    /\ text' = String(tmpl)
    /\ pc' = "rendered"
    /\ UNCHANGED <<variant, args, arg0, GOPATH, disk0, tmpl, tmpl0, ctx, pathVars, runVars>>

NextTemplate == Insert \/ Render

SpecTemplate == InitTemplate /\ [][NextTemplate]_vars

----------------------------------------------------------------------------
(* Properties of the template engine *)

TokenIndex(v) == 1..Len(Tokens(v))

\* some token of the variant occurs in s
ContainsToken(s, v) ==
    \E k \in TokenIndex(v) : \E i \in 1..Len(s) : MatchesAt(s, Tokens(v)[k][1], i)

\* none of the values handed to insert contains a token
ValuesClean(v, c) == \A k \in TokenIndex(v) : ~ContainsToken(c[Tokens(v)[k][2]], v)

\* the characters tokens are made of
TokenChars(v) == UNION {{Tokens(v)[k][1][i] : i \in 1..Len(Tokens(v)[k][1])} : k \in TokenIndex(v)}

\* every token occurrence in the template is bounded on both sides by a
\* line end or by a character that occurs in no token
Delimited(t, v) ==
    \A l \in 1..Len(t) : \A k \in TokenIndex(v) : \A i \in 1..Len(t[l]) :
        MatchesAt(t[l], Tokens(v)[k][1], i) =>
            /\ i = 1 \/ t[l][i - 1] \notin TokenChars(v)
            /\ LET j == i + Len(Tokens(v)[k][1])
               IN j > Len(t[l]) \/ t[l][j] \notin TokenChars(v)

\* a line with every token occurrence replaced by its value in one pass
\* over the original line, everything else copied
RECURSIVE Substituted(_, _, _, _)
Substituted(s, v, c, i) ==
    IF i > Len(s) THEN <<>>
    ELSE LET K == {k \in TokenIndex(v) : MatchesAt(s, Tokens(v)[k][1], i)}
         IN IF K = {} THEN <<s[i]>> \o Substituted(s, v, c, i + 1)
            ELSE c[Tokens(v)[Min(K)][2]]
                 \o Substituted(s, v, c, i + Len(Tokens(v)[Min(K)][1]))

ExpectedText ==
    StrJoin([l \in 1..Len(tmpl0) |-> Substituted(tmpl0[l], variant, ctx, 1)], "\n")

CompiledInDelimited ==
    \A v \in Variants : \A t \in {template, licenseMIT, readme} : Delimited(t, v)

====
